---- MODULE Spec2Model ----
(***************************************************************************)
(* A model of gotty's app package (src/app/app.go): the options record and *)
(* the configuration file applied to it, the basic-auth wrapper, the route *)
(* registration of App.Run, the upgrade handler App.handleWS and the       *)
(* shutdown entry point App.Exit.                                          *)
(*                                                                         *)
(* Strings are sequences of one-character strings, so that the string      *)
(* functions of the code (SplitN, ToLower, base64 decoding, camel-case     *)
(* splitting, path concatenation) are computed and not assumed.            *)
(***************************************************************************)
EXTENDS Integers, Sequences, FiniteSets, TLC

(***************************************************************************)
(* Bounds of the model.                                                    *)
(***************************************************************************)
\* the number of keys of a configuration document
MaxKeys == 2
\* the number of client requests the server sees
MaxRequests == 2
\* the number of calls of App.Exit
MaxExitCalls == 2
\* the largest random URL length tried
MaxUrlLen == 1

(***************************************************************************)
(* Characters and strings.                                                 *)
(***************************************************************************)
Upper == <<"A","B","C","D","E","F","G","H","I","J","K","L","M",
           "N","O","P","Q","R","S","T","U","V","W","X","Y","Z">>
Lower == <<"a","b","c","d","e","f","g","h","i","j","k","l","m",
           "n","o","p","q","r","s","t","u","v","w","x","y","z">>
Digits == <<"0","1","2","3","4","5","6","7","8","9">>

Range(s) == {s[i] : i \in 1..Len(s)}

\* the position of c in s, 0 when it is not there
IndexOf(s, c) == IF c \in Range(s) THEN CHOOSE i \in 1..Len(s) : s[i] = c ELSE 0

\* strings.ToLower, on ASCII
ToLowerChar(c) == IF c \in Range(Upper) THEN Lower[IndexOf(Upper, c)] ELSE c
ToLower(s) == [i \in 1..Len(s) |-> ToLowerChar(s[i])]

\* the byte of an ASCII character (the characters the model uses)
Ascii(c) ==
    IF c \in Range(Upper) THEN 64 + IndexOf(Upper, c)
    ELSE IF c \in Range(Lower) THEN 96 + IndexOf(Lower, c)
    ELSE IF c \in Range(Digits) THEN 47 + IndexOf(Digits, c)
    ELSE IF c = " " THEN 32
    ELSE IF c = "!" THEN 33
    ELSE IF c = "+" THEN 43
    ELSE IF c = "/" THEN 47
    ELSE IF c = ":" THEN 58
    ELSE IF c = "=" THEN 61
    ELSE 95
Bytes(s) == [i \in 1..Len(s) |-> Ascii(s[i])]

\* strings.Join
RECURSIVE Join(_, _)
Join(parts, sep) ==
    IF Len(parts) = 0 THEN << >>
    ELSE IF Len(parts) = 1 THEN parts[1]
    ELSE parts[1] \o sep \o Join(Tail(parts), sep)

\* strings.SplitN(s, " ", 2): one part without a separator, else the text
\* before the first separator and all the text after it
SplitN2(s) ==
    IF " " \notin Range(s) THEN <<s>>
    ELSE LET i == CHOOSE k \in 1..Len(s) :
                     s[k] = " " /\ \A j \in 1..(k - 1) : s[j] # " "
         IN <<SubSeq(s, 1, i - 1), SubSeq(s, i + 1, Len(s))>>

(***************************************************************************)
(* base64.StdEncoding.DecodeString: the padded standard alphabet, decoded  *)
(* four characters at a time; the unused low bits of a padded last group   *)
(* are not checked.                                                        *)
(***************************************************************************)
B64Alphabet == Upper \o Lower \o Digits \o <<"+", "/">>
B64Val(c) == IndexOf(B64Alphabet, c) - 1
IsB64(c) == c \in Range(B64Alphabet)

Quantum(a, b, c, d) == B64Val(a) * 262144 + B64Val(b) * 4096 + B64Val(c) * 64 + B64Val(d)
QuantumBytes(v) == <<v \div 65536, (v \div 256) % 256, v % 256>>

RECURSIVE DecodeGroups(_)
DecodeGroups(s) ==
    IF Len(s) = 0 THEN [err |-> FALSE, bytes |-> << >>]
    ELSE IF Len(s) < 4 THEN [err |-> TRUE, bytes |-> << >>]
    ELSE
      LET a == s[1]  b == s[2]  c == s[3]  d == s[4]
          last == Len(s) = 4
      IN IF IsB64(a) /\ IsB64(b) /\ IsB64(c) /\ IsB64(d)
         THEN LET rest == DecodeGroups(SubSeq(s, 5, Len(s)))
              IN [err |-> rest.err,
                  bytes |-> QuantumBytes(Quantum(a, b, c, d)) \o rest.bytes]
         ELSE IF last /\ IsB64(a) /\ IsB64(b) /\ IsB64(c) /\ d = "="
         THEN [err |-> FALSE,
               bytes |-> SubSeq(QuantumBytes(Quantum(a, b, c, "A")), 1, 2)]
         ELSE IF last /\ IsB64(a) /\ IsB64(b) /\ c = "=" /\ d = "="
         THEN [err |-> FALSE,
               bytes |-> SubSeq(QuantumBytes(Quantum(a, b, "A", "A")), 1, 1)]
         ELSE [err |-> TRUE, bytes |-> << >>]

DecodeString(s) ==
    LET r == DecodeGroups(s)
    IN IF r.err THEN [err |-> TRUE, bytes |-> << >>] ELSE r

(***************************************************************************)
(* camelcase.Split, as called by applyConfigFile: runs of characters of    *)
(* one class, then the last capital of a run of capitals moves to the      *)
(* lower-case run that follows it, then the empty runs are dropped.        *)
(***************************************************************************)
CharClass(c) ==
    IF c \in Range(Lower) THEN 1
    ELSE IF c \in Range(Upper) THEN 2
    ELSE IF c \in Range(Digits) THEN 3
    ELSE 4

RECURSIVE ClassRuns(_, _, _)
ClassRuns(s, i, runs) ==
    IF i > Len(s) THEN runs
    ELSE IF i > 1 /\ CharClass(s[i]) = CharClass(s[i - 1])
    THEN ClassRuns(s, i + 1,
                   [runs EXCEPT ![Len(runs)] = Append(runs[Len(runs)], s[i])])
    ELSE ClassRuns(s, i + 1, Append(runs, <<s[i]>>))

RECURSIVE UpperLowerFix(_, _)
UpperLowerFix(runs, i) ==
    IF i > Len(runs) - 1 THEN runs
    ELSE IF runs[i][1] \in Range(Upper) /\ runs[i + 1][1] \in Range(Lower)
    THEN UpperLowerFix(
           [runs EXCEPT ![i + 1] = <<runs[i][Len(runs[i])]>> \o runs[i + 1],
                        ![i] = SubSeq(runs[i], 1, Len(runs[i]) - 1)],
           i + 1)
    ELSE UpperLowerFix(runs, i + 1)

CamelcaseSplit(s) ==
    SelectSeq(UpperLowerFix(ClassRuns(s, 1, << >>), 1), LAMBDA r : Len(r) > 0)

\* the key of a configuration document that sets the option field `name`
ConfigName(name) == ToLower(Join(CamelcaseSplit(name), <<"_">>))

(***************************************************************************)
(* The Options record (type Options) and DefaultOptions.  A value carries  *)
(* its Go kind, as reflect sees it; the record is the sequence of its      *)
(* fields in declaration order, the order structs.Names() returns.  The    *)
(* value of a string option is kept as a string; the credential, whose     *)
(* bytes wrapBasicAuth compares, is spelled out by CredentialChars.        *)
(***************************************************************************)
FieldIds ==
    <<"Address", "Port", "PermitWrite", "EnableBasicAuth", "Credential",
      "EnableRandomUrl", "RandomUrlLength", "ProfileFile", "EnableTLS",
      "TLSCrtFile", "TLSKeyFile", "TitleFormat", "EnableReconnect",
      "ReconnectTime", "Once">>

OptionNames ==
    <<<<"A","d","d","r","e","s","s">>,
      <<"P","o","r","t">>,
      <<"P","e","r","m","i","t","W","r","i","t","e">>,
      <<"E","n","a","b","l","e","B","a","s","i","c","A","u","t","h">>,
      <<"C","r","e","d","e","n","t","i","a","l">>,
      <<"E","n","a","b","l","e","R","a","n","d","o","m","U","r","l">>,
      <<"R","a","n","d","o","m","U","r","l","L","e","n","g","t","h">>,
      <<"P","r","o","f","i","l","e","F","i","l","e">>,
      <<"E","n","a","b","l","e","T","L","S">>,
      <<"T","L","S","C","r","t","F","i","l","e">>,
      <<"T","L","S","K","e","y","F","i","l","e">>,
      <<"T","i","t","l","e","F","o","r","m","a","t">>,
      <<"E","n","a","b","l","e","R","e","c","o","n","n","e","c","t">>,
      <<"R","e","c","o","n","n","e","c","t","T","i","m","e">>,
      <<"O","n","c","e">>>>

StringValue(s) == [kind |-> "string", val |-> s]
BoolValue(b) == [kind |-> "bool", val |-> b]
IntValue(n) == [kind |-> "int", val |-> n]

DefaultOptions ==
    <<StringValue(""),
      StringValue("8080"),
      BoolValue(FALSE),
      BoolValue(FALSE),
      StringValue(""),
      BoolValue(FALSE),
      IntValue(8),
      StringValue("~/.gotty.prf"),
      BoolValue(FALSE),
      StringValue("~/.gotty.key"),
      StringValue("~/.gotty.crt"),
      StringValue("GoTTY - {{ .Command }} ({{ .Hostname }})"),
      BoolValue(FALSE),
      IntValue(10),
      BoolValue(FALSE)>>

\* the characters of the credential strings the model uses
CredentialChars(s) ==
    CASE s = "" -> << >>
      [] s = "u:" -> <<"u",":">>
      [] s = "u:p" -> <<"u",":","p">>

\* the value of the field `id` of the options record o
Field(o, id) == o[IndexOf(FieldIds, id)].val
WithField(o, id, v) == [o EXCEPT ![IndexOf(FieldIds, id)].val = v]

VARIABLES
    options,      \* the Options record the application was given
    cfgFile,      \* the configuration file: missing, unreadable, malformed, ok
    cfgDoc,       \* what the file decodes to: key -> value
    cfgPc,        \* "start", and "done" once applyConfigFile has returned
    cfgErr,       \* the error applyConfigFile returned
    runPc,        \* App.Run: "start", "serving" (in ListenAndServe), "done"
    runErr,       \* what App.Run returned: "nil" or "bind"
    server,       \* app.server and the state of the graceful server
    site,         \* the path prefix, the routes and the auth wrapper of Run
    requests,     \* the client requests, in the order they were accepted
    exitResults,  \* the values the calls of App.Exit returned, in order
    atExit        \* the sessions that were running when Exit closed the server

vars == <<options, cfgFile, cfgDoc, cfgPc, cfgErr, runPc, runErr, server, site,
          requests, exitResults, atExit>>
cfgVars == <<cfgFile, cfgDoc, cfgPc, cfgErr>>
srvVars == <<runPc, runErr, server, site, requests, exitResults, atExit>>

(***************************************************************************)
(* applyConfigFile                                                         *)
(***************************************************************************)
\* a Set that stores the value before it compares the kinds
FieldSet_SetsBeforeCheck(field, val) ==
    [err |-> IF field.kind # val.kind THEN "wrong kind" ELSE "nil", field |-> val]

\* field.Set of structs: the kinds must agree
FieldSet(field, val) ==
    IF field.kind # val.kind
    THEN [err |-> "wrong kind", field |-> field]
    ELSE [err |-> "nil", field |-> val]

\* the loop over o.Names(), from the i-th name on
RECURSIVE SetFields(_, _, _)
SetFields(o, config, i) ==
    IF i > Len(OptionNames) THEN [err |-> "nil", options |-> o]
    ELSE LET configName == ConfigName(OptionNames[i])
         IN IF configName \in DOMAIN config
            THEN LET set == FieldSet(o[i], config[configName])
                 IN IF set.err # "nil"
                    THEN [err |-> set.err, options |-> [o EXCEPT ![i] = set.field]]
                    ELSE SetFields([o EXCEPT ![i] = set.field], config, i + 1)
            ELSE SetFields(o, config, i + 1)

EmptyDoc == [k \in {} |-> BoolValue(FALSE)]

\* hcl.Decode into the map; its error is dropped and the map stays empty
HclDecode(file, doc) == IF file = "ok" THEN doc ELSE EmptyDoc

applyConfigFile ==
    /\ cfgPc = "start"
    /\ cfgPc' = "done"
    /\ IF cfgFile = "missing"
       THEN cfgErr' = "not exist" /\ options' = options
       ELSE IF cfgFile = "unreadable"
       THEN cfgErr' = "read" /\ options' = options
       ELSE LET r == SetFields(options, HclDecode(cfgFile, cfgDoc), 1)
            IN cfgErr' = r.err /\ options' = r.options
    /\ UNCHANGED <<cfgFile, cfgDoc>>
    /\ UNCHANGED srvVars

(***************************************************************************)
(* The configuration documents tried.                                      *)
(***************************************************************************)
\* the snake-case keys of the options, in the order of the fields
SnakeKeys ==
    <<<<"a","d","d","r","e","s","s">>,
      <<"p","o","r","t">>,
      <<"p","e","r","m","i","t","_","w","r","i","t","e">>,
      <<"e","n","a","b","l","e","_","b","a","s","i","c","_","a","u","t","h">>,
      <<"c","r","e","d","e","n","t","i","a","l">>,
      <<"e","n","a","b","l","e","_","r","a","n","d","o","m","_","u","r","l">>,
      <<"r","a","n","d","o","m","_","u","r","l","_","l","e","n","g","t","h">>,
      <<"p","r","o","f","i","l","e","_","f","i","l","e">>,
      <<"e","n","a","b","l","e","_","t","l","s">>,
      <<"t","l","s","_","c","r","t","_","f","i","l","e">>,
      <<"t","l","s","_","k","e","y","_","f","i","l","e">>,
      <<"t","i","t","l","e","_","f","o","r","m","a","t">>,
      <<"e","n","a","b","l","e","_","r","e","c","o","n","n","e","c","t">>,
      <<"r","e","c","o","n","n","e","c","t","_","t","i","m","e">>,
      <<"o","n","c","e">>>>
KnownKeys == Range(SnakeKeys)
\* "foo" and "Port": keys of no option
UnknownKeys == { <<"f","o","o">>, <<"P","o","r","t">> }
DocKeys == KnownKeys \cup UnknownKeys
DocValues == { StringValue("s"), BoolValue(TRUE), IntValue(1) }

RECURSIVE KeySets(_)
KeySets(n) ==
    IF n = 0 THEN { {} }
    ELSE LET smaller == KeySets(n - 1)
         IN smaller \cup { s \cup {k} : s \in smaller, k \in DocKeys }

Docs == UNION { [ks -> DocValues] : ks \in KeySets(MaxKeys) }

(***************************************************************************)
(* wrapBasicAuth: what the wrapper answers to a request whose              *)
(* Authorization header is `header` ("" when the request has none).        *)
(***************************************************************************)
BasicScheme == <<"b","a","s","i","c">>

SchemeIsBasic(scheme) == ToLower(scheme) = BasicScheme

\* a comparison that accepts every payload that decodes
CredentialMatches_AnyPayload(credential, payload) == TRUE

CredentialMatches(credential, payload) == Bytes(credential) = payload

Unauthorized == [pass |-> FALSE, status |-> 401, challenge |-> TRUE]
DecodeFailure == [pass |-> FALSE, status |-> 500, challenge |-> FALSE]
Authorized == [pass |-> TRUE, status |-> 0, challenge |-> FALSE]

wrapBasicAuth(header, credential) ==
    LET token == SplitN2(header)
    IN IF Len(token) # 2 \/ ~SchemeIsBasic(token[1])
       THEN Unauthorized
       ELSE LET payload == DecodeString(token[2])
            IN IF payload.err THEN DecodeFailure
               ELSE IF ~CredentialMatches(credential, payload.bytes)
               THEN Unauthorized
               ELSE Authorized

(***************************************************************************)
(* generateRandomString: one base-36 digit per random number drawn.        *)
(***************************************************************************)
RandBase == 36
Digits36 == Digits \o Lower
RandomDraws(length) == [1..length -> 0..(RandBase - 1)]
generateRandomString(length, rnd) == [i \in 1..length |-> Digits36[rnd[i] + 1]]

(***************************************************************************)
(* The routes of App.Run and the dispatch of http.ServeMux: a pattern that *)
(* ends in "/" matches the paths it is a prefix of, any other pattern only *)
(* itself; the longest matching pattern wins; a path that is not clean     *)
(* (here: one holding "//") is redirected to its clean form.               *)
(***************************************************************************)
Slash == <<"/">>
WsSuffix == <<"/","w","s">>

RandomPath(enabled, length, rnd) ==
    IF enabled THEN Slash \o generateRandomString(length, rnd) ELSE << >>

StaticPattern(path) == path \o Slash
WsPattern(path) == path \o WsSuffix

Routes(path) ==
    { [pattern |-> StaticPattern(path), handler |-> "static"],
      [pattern |-> WsPattern(path), handler |-> "ws"] }

HasPrefix(s, prefix) ==
    Len(prefix) <= Len(s) /\ SubSeq(s, 1, Len(prefix)) = prefix

PatternMatches(pattern, urlPath) ==
    IF pattern[Len(pattern)] = "/" THEN HasPrefix(urlPath, pattern)
    ELSE urlPath = pattern

IsCleanPath(urlPath) ==
    /\ Len(urlPath) > 0
    /\ urlPath[1] = "/"
    /\ \A i \in 1..(Len(urlPath) - 1) : ~(urlPath[i] = "/" /\ urlPath[i + 1] = "/")

siteMux(mux, urlPath) ==
    IF ~IsCleanPath(urlPath) THEN "redirect"
    ELSE LET hits == {rt \in mux : PatternMatches(rt.pattern, urlPath)}
         IN IF hits = {} THEN "notfound"
            ELSE (CHOOSE rt \in hits :
                    \A other \in hits : Len(other.pattern) <= Len(rt.pattern)).handler

(***************************************************************************)
(* The graceful server behind app.server.  created: app.server is set;     *)
(* listener: "none", "open" (accepting) or "closed" (drained); closed:     *)
(* Close has been called on it.                                            *)
(***************************************************************************)
NoServer == [created |-> FALSE, listener |-> "none", closed |-> FALSE]

\* GracefulServer.Close: true the first time, and the listener stops accepting
ServerClose(srv) ==
    [srv EXCEPT !.closed = TRUE,
                !.listener = IF @ = "open" THEN "closed" ELSE @]
ServerCloseResult(srv) == ~srv.closed

\* the test inverted
ServerIsSet_Inverted(srv) == ~srv.created

\* the test `app.server != nil` of App.Exit
ServerIsSet(srv) == srv.created

(***************************************************************************)
(* A client request.  pc: "accepted" (the connection is accepted, the      *)
(* handler has not run), "upgraded" (handleWS has upgraded it and is about *)
(* to start the command), "done" (the handler has returned).               *)
(* socket: "http" while the server owns the connection, "ws" once it is    *)
(* upgraded and open, "closed" once the upgraded socket is closed.         *)
(***************************************************************************)
NewRequest(m, u, h, hs) ==
    [method |-> m, url |-> u, auth |-> h, handshake |-> hs,
     pc |-> "accepted", status |-> 0, challenge |-> FALSE, handler |-> "none",
     socket |-> "http", child |-> "none", session |-> "none",
     ptyFailed |-> FALSE]

\* a handler that lets every method through
MethodAllowed_Any(m) == TRUE

\* the method test of handleWS
MethodAllowed(m) == m = "GET"

\* handleWS up to and including upgrader.Upgrade
handleWSUpgrade(r) ==
    IF ~MethodAllowed(r.method)
    THEN [r EXCEPT !.pc = "done", !.status = 405]
    ELSE IF ~r.handshake
    THEN [r EXCEPT !.pc = "done", !.status = 400]
    ELSE [r EXCEPT !.pc = "upgraded", !.status = 101, !.socket = "ws"]

\* the site handler: wrapLogger, wrapBasicAuth when enabled, the mux, and the
\* handler the mux picks
siteHandler(st, r) ==
    LET a == IF st.auth THEN wrapBasicAuth(r.auth, st.credential) ELSE Authorized
    IN IF ~a.pass
       THEN [r EXCEPT !.pc = "done", !.status = a.status, !.challenge = a.challenge]
       ELSE LET h == siteMux(st.mux, r.url)
            IN IF h = "redirect" THEN [r EXCEPT !.pc = "done", !.status = 301]
               ELSE IF h = "notfound" THEN [r EXCEPT !.pc = "done", !.status = 404]
               ELSE IF h = "static"
               THEN [r EXCEPT !.pc = "done", !.status = 200, !.handler = "static"]
               ELSE handleWSUpgrade([r EXCEPT !.handler = "ws"])

\* goHandleClient: the session starts; in once mode the server is closed
goHandleClient(srv, once) == IF once THEN ServerClose(srv) ELSE srv

Running(reqs) == {i \in 1..Len(reqs) : reqs[i].session = "running"}

(***************************************************************************)
(* The actions.                                                            *)
(***************************************************************************)
\* App.Run up to ListenAndServe, which blocks while the server serves; a
\* listen error makes Run return it.  app.server is set right before the
\* call, and the two are one step here.
RunStart ==
    /\ runPc = "start"
    /\ \E rnd \in RandomDraws(IF Field(options, "EnableRandomUrl")
                              THEN Field(options, "RandomUrlLength") ELSE 0),
          listening \in BOOLEAN :
         LET path == RandomPath(Field(options, "EnableRandomUrl"),
                                Field(options, "RandomUrlLength"), rnd)
         IN /\ site' = [path |-> path, mux |-> Routes(path),
                        auth |-> Field(options, "EnableBasicAuth"),
                        credential |-> CredentialChars(Field(options, "Credential"))]
            /\ server' = [created |-> TRUE,
                          listener |-> IF listening THEN "open" ELSE "none",
                          closed |-> FALSE]
            /\ runPc' = IF listening THEN "serving" ELSE "done"
            /\ runErr' = IF listening THEN "none" ELSE "bind"
    /\ UNCHANGED <<options, requests, exitResults, atExit>>
    /\ UNCHANGED cfgVars

\* the listener accepts the connection of a client and reads its request
Accept(m, u, h, hs) ==
    /\ server.listener = "open"
    /\ Len(requests) < MaxRequests
    /\ requests' = Append(requests, NewRequest(m, u, h, hs))
    /\ UNCHANGED <<options, runPc, runErr, server, site, exitResults, atExit>>
    /\ UNCHANGED cfgVars

\* the handler of the i-th request runs, through the upgrade for a request
\* that reaches handleWS
ServeHTTP(i) ==
    /\ i \in 1..Len(requests)
    /\ requests[i].pc = "accepted"
    /\ requests' = [requests EXCEPT ![i] = siteHandler(site, requests[i])]
    /\ UNCHANGED <<options, runPc, runErr, server, site, exitResults, atExit>>
    /\ UNCHANGED cfgVars

\* handleWS from pty.Start on: the command starts and the session is handed
\* to goHandleClient, or the start fails and handleWS returns
HandleWSStart(i) ==
    /\ i \in 1..Len(requests)
    /\ requests[i].pc = "upgraded"
    /\ \E started \in BOOLEAN :
         IF started
         THEN /\ requests' = [requests EXCEPT ![i] =
                     [@ EXCEPT !.pc = "done", !.child = "running",
                               !.session = "running"]]
              /\ server' = goHandleClient(server, Field(options, "Once"))
         ELSE /\ requests' = [requests EXCEPT ![i] =
                     [@ EXCEPT !.pc = "done", !.ptyFailed = TRUE]]
              /\ server' = server
    /\ UNCHANGED <<options, runPc, runErr, site, exitResults, atExit>>
    /\ UNCHANGED cfgVars

\* the teardown of a session: the command is killed and reaped, the socket
\* is closed
SessionTeardown(i) ==
    /\ i \in 1..Len(requests)
    /\ requests[i].session = "running"
    /\ requests' = [requests EXCEPT ![i] =
           [@ EXCEPT !.session = "closed", !.child = "reaped",
                     !.socket = "closed"]]
    /\ UNCHANGED <<options, runPc, runErr, server, site, exitResults, atExit>>
    /\ UNCHANGED cfgVars

\* App.Exit.  Its read of app.server is not synchronised with the write of
\* Run: it sees the field as it is before or after RunStart.
Exit ==
    /\ Len(exitResults) < MaxExitCalls
    /\ IF ServerIsSet(server)
       THEN /\ exitResults' = Append(exitResults, ServerCloseResult(server))
            /\ server' = ServerClose(server)
            /\ atExit' = IF server.listener = "open" THEN Running(requests)
                         ELSE atExit
       ELSE /\ exitResults' = Append(exitResults, TRUE)
            /\ UNCHANGED <<server, atExit>>
    /\ UNCHANGED <<options, runPc, runErr, site, requests>>
    /\ UNCHANGED cfgVars

\* ListenAndServe returns once the server is closed, the handlers have
\* returned and the sessions have ended; App.Run then returns nil
RunReturn ==
    /\ runPc = "serving"
    /\ server.listener = "closed"
    /\ \A i \in 1..Len(requests) :
         requests[i].pc = "done" /\ requests[i].session # "running"
    /\ runPc' = "done"
    /\ runErr' = "nil"
    /\ UNCHANGED <<options, server, site, requests, exitResults, atExit>>
    /\ UNCHANGED cfgVars

(***************************************************************************)
(* The inputs tried and the specifications.                                *)
(***************************************************************************)
NoSite == [path |-> << >>, mux |-> {}, auth |-> FALSE, credential |-> << >>]

ServerOptions(once, auth, credential, randomUrl, length) ==
    WithField(WithField(WithField(WithField(WithField(DefaultOptions,
        "Once", once), "EnableBasicAuth", auth), "Credential", credential),
        "EnableRandomUrl", randomUrl), "RandomUrlLength", length)

\* the credentials tried
UserPass == "u:p"
UserNoPassword == "u:"

\* the URL paths clients ask for: the root routes and the routes under the prefix
Urls(path) == {Slash, WsSuffix, StaticPattern(path), WsPattern(path)}

NoHeader == << >>
\* "Basic dTpw" and "basic dTpw": the credential "u:p"
HeaderGood == <<"B","a","s","i","c"," ","d","T","p","w">>
HeaderGoodLower == <<"b","a","s","i","c"," ","d","T","p","w">>
\* "Basic": one part only
HeaderOnePart == <<"B","a","s","i","c">>
\* "Bearer dTpw": another scheme
HeaderBearer == <<"B","e","a","r","e","r"," ","d","T","p","w">>
\* "Basic d!pw", "Basic dTp", "Basic  dTpw": tokens that are not base64
HeaderBadChar == <<"B","a","s","i","c"," ","d","!","p","w">>
HeaderShort == <<"B","a","s","i","c"," ","d","T","p">>
HeaderTwoSpaces == <<"B","a","s","i","c"," "," ","d","T","p","w">>
\* "Basic dTpx" ("u:q") and "Basic dR==" ("u", with low bits set in the padded
\* group): well-formed headers of no configured credential
HeaderWrong == <<"B","a","s","i","c"," ","d","T","p","x">>
HeaderWrongLowBits == <<"B","a","s","i","c"," ","d","R","=","=">>
\* "Basic dTo=": the credential "u:"
HeaderNoPassword == <<"B","a","s","i","c"," ","d","T","o","=">>

AuthHeaders ==
    { NoHeader, HeaderGood, HeaderGoodLower, HeaderOnePart, HeaderBearer,
      HeaderBadChar, HeaderShort, HeaderTwoSpaces, HeaderWrong,
      HeaderWrongLowBits, HeaderNoPassword }

InitServer(optionSet) ==
    /\ options \in optionSet
    /\ cfgFile = "ok"
    /\ cfgDoc = EmptyDoc
    /\ cfgPc = "done"
    /\ cfgErr = "nil"
    /\ runPc = "start"
    /\ runErr = "none"
    /\ server = NoServer
    /\ site = NoSite
    /\ requests = << >>
    /\ exitResults = << >>
    /\ atExit = {}

\* the server starts and serves its clients
Serving(headers, methods, handshakes) ==
    \/ RunStart
    \/ \E m \in methods, u \in Urls(site.path), h \in headers, hs \in handshakes :
         Accept(m, u, h, hs)
    \/ \E i \in 1..Len(requests) : ServeHTTP(i)
    \/ \E i \in 1..Len(requests) : HandleWSStart(i)
    \/ \E i \in 1..Len(requests) : SessionTeardown(i)

\* the same, and it is shut down
Steps(headers, methods, handshakes) ==
    \/ Serving(headers, methods, handshakes)
    \/ Exit
    \/ RunReturn

\* the server without authentication and with the fixed prefix, in and out of
\* once mode
Init ==
    InitServer({ServerOptions(once, FALSE, "", FALSE, 8) : once \in BOOLEAN})
Next == Steps({NoHeader}, {"GET", "POST"}, BOOLEAN)
Spec == Init /\ [][Next]_vars

\* the same, with the scheduling of the process: a handler that can run runs,
\* and ListenAndServe returns when it can (a session ends when its client or
\* its command ends it, which nothing guarantees)
Fairness ==
    /\ WF_vars(RunReturn)
    /\ \A i \in 1..MaxRequests :
         WF_vars(ServeHTTP(i)) /\ WF_vars(HandleWSStart(i))
LiveSpec == Spec /\ Fairness

\* the server with basic authentication, while it serves
InitAuth ==
    InitServer({ServerOptions(FALSE, TRUE, c, FALSE, 8) : c \in {UserPass, UserNoPassword}})
NextAuth == Serving(AuthHeaders, {"GET"}, {TRUE})
SpecAuth == InitAuth /\ [][NextAuth]_vars

\* the server with and without a random URL prefix
InitRoutes ==
    InitServer({ServerOptions(FALSE, FALSE, "", r, n) :
                    r \in BOOLEAN, n \in 0..MaxUrlLen})
NextRoutes == Steps({NoHeader}, {"GET"}, {TRUE})
SpecRoutes == InitRoutes /\ [][NextRoutes]_vars

\* a configuration file applied to the default options
InitConfig ==
    /\ options = DefaultOptions
    /\ \/ cfgFile \in {"missing", "unreadable", "malformed"} /\ cfgDoc = EmptyDoc
       \/ cfgFile = "ok" /\ cfgDoc \in Docs
    /\ cfgPc = "start"
    /\ cfgErr = "nil"
    /\ runPc = "start"
    /\ runErr = "none"
    /\ server = NoServer
    /\ site = NoSite
    /\ requests = << >>
    /\ exitResults = << >>
    /\ atExit = {}
NextConfig == applyConfigFile
SpecConfig == InitConfig /\ [][NextConfig]_vars

(***************************************************************************)
(* The properties.                                                         *)
(***************************************************************************)
Req(i) == requests[i]
ReqIds == 1..Len(requests)
AuthEnabled == Field(options, "EnableBasicAuth")
SameValue(a, b) == a.kind = b.kind /\ a.val = b.val

\* the headers that carry the credential, scheme Basic in either case
HeadersOf(credential) ==
    IF credential = UserPass THEN {HeaderGood, HeaderGoodLower}
    ELSE IF credential = UserNoPassword THEN {HeaderNoPassword}
    ELSE {}

\* C1: with basic auth enabled, a request reaches the static handler or
\* handleWS, is upgraded, starts a command or becomes a session only if its
\* Authorization header is of scheme Basic and carries the base64 form of
\* the configured credential.
C1_AuthGate ==
    AuthEnabled =>
      \A i \in ReqIds :
        (\/ Req(i).handler # "none"
         \/ Req(i).socket # "http"
         \/ Req(i).child # "none"
         \/ Req(i).session # "none"
         \/ Req(i).status \in {101, 200})
        => Req(i).auth \in HeadersOf(Field(options, "Credential"))

\* a session started with the credential, next to an upgrade request refused
\* for a wrong one
C1_Witness ==
    /\ AuthEnabled
    /\ \E i \in ReqIds, j \in ReqIds :
         /\ Req(i).session = "running"
         /\ Req(i).auth \in HeadersOf(Field(options, "Credential"))
         /\ Req(j).url = WsSuffix
         /\ Req(j).auth \in {HeaderWrong, HeaderWrongLowBits}
         /\ Req(j).status = 401

\* the headers that are missing or malformed: none, one part, another
\* scheme, a token that is not base64
MalformedHeaders ==
    {NoHeader, HeaderOnePart, HeaderBearer, HeaderBadChar, HeaderShort,
     HeaderTwoSpaces}

\* C2: with basic auth enabled, a request whose Authorization header is
\* missing or malformed is answered 401 with the WWW-Authenticate challenge
\* and does not reach the wrapped handler.
C2_MalformedIs401 ==
    AuthEnabled =>
      \A i \in ReqIds :
        (Req(i).pc = "done" /\ Req(i).auth \in MalformedHeaders)
        => (Req(i).status = 401 /\ Req(i).challenge /\ Req(i).handler = "none")

\* C3: in once mode at most one request ever becomes a session and at most
\* one command is ever started, however the requests interleave.
C3_OnceOneSession ==
    Field(options, "Once") =>
      /\ Cardinality({i \in ReqIds : Req(i).session # "none"}) <= 1
      /\ Cardinality({i \in ReqIds : Req(i).child # "none"}) <= 1

AllQuiet ==
    \A i \in ReqIds : Req(i).pc = "done" /\ Req(i).session # "running"

C5_OnlyFirstExitTrue ==
    \A k \in 1..Len(exitResults) : exitResults[k] = (k = 1)

\* C6: when starting the command fails after the upgrade, the upgraded
\* socket is closed by the time handleWS has returned, and the request
\* leaves no session and no command.
C6_SpawnFailureClosesSocket ==
    \A i \in ReqIds :
      (Req(i).pc = "done" /\ Req(i).ptyFailed)
      => (Req(i).socket = "closed" /\ Req(i).session = "none"
          /\ Req(i).child = "none")

\* C7, as claimed: every request that was upgraded has, once handleWS has
\* returned, started a command; the commands started are as many as the
\* upgrades.
C7_UpgradeSpawnsOne ==
    \A i \in ReqIds :
      (Req(i).pc = "done" /\ Req(i).status = 101) => Req(i).child # "none"

\* C7, amended: the commands started are as many as the sessions handed to
\* the session engine, one for each; a session that has ended has its
\* command reaped; a request refused for its method (405) or at the upgrade
\* starts none; an upgraded request starts one unless the start fails, and
\* then it starts none and is no session.
C7_ChildPerSession ==
    /\ Cardinality({i \in ReqIds : Req(i).child # "none"})
         = Cardinality({i \in ReqIds : Req(i).session # "none"})
    /\ \A i \in ReqIds :
         /\ (Req(i).child # "none") <=> (Req(i).session # "none")
         /\ (Req(i).child = "reaped") <=> (Req(i).session = "closed")
         /\ (Req(i).handler = "ws" /\ Req(i).method # "GET")
              => (Req(i).status = 405 /\ Req(i).child = "none")
         /\ ~Req(i).handshake => (Req(i).child = "none" /\ Req(i).status # 101)
         /\ Req(i).status # 101 => Req(i).child = "none"
         /\ (Req(i).pc = "done" /\ Req(i).status = 101)
              => IF Req(i).ptyFailed
                 THEN Req(i).child = "none" /\ Req(i).session = "none"
                 ELSE Req(i).child # "none"

\* a session with its command, next to a POST to the upgrade route answered
\* 405 and an upgrade whose handshake failed
C7_Witness ==
    \E i \in ReqIds, j \in ReqIds :
      /\ Req(i).session = "running"
      /\ Req(i).child = "running"
      /\ Req(j).handler = "ws"
      /\ Req(j).pc = "done"
      /\ Req(j).child = "none"
      /\ \/ Req(j).method = "POST" /\ Req(j).status = 405
         \/ Req(j).method = "GET" /\ ~Req(j).handshake

\* C8: a configuration document with a key that is the snake-case name of
\* no option makes applyConfigFile return an error.
C8_UnknownKeyRejected ==
    (cfgPc = "done" /\ cfgFile = "ok"
       /\ \E k \in DOMAIN cfgDoc : k \notin KnownKeys)
    => cfgErr # "nil"

\* C9: with the random URL enabled and of length 0, Run registers the static
\* route at "/" and the upgrade route at "/ws".
C9_ZeroLengthIsRoot ==
    (runPc = "serving" /\ Field(options, "EnableRandomUrl")
       /\ Field(options, "RandomUrlLength") = 0)
    => /\ site.path = << >>
       /\ site.mux = { [pattern |-> <<"/">>, handler |-> "static"],
                       [pattern |-> <<"/","w","s">>, handler |-> "ws"] }

OptionsUnchanged ==
    \A i \in 1..Len(DefaultOptions) : SameValue(options[i], DefaultOptions[i])

\* C10, as claimed: when applyConfigFile has returned an error, the options
\* are as they were before the call.
C10_AllOrNothing ==
    (cfgPc = "done" /\ cfgErr # "nil") => OptionsUnchanged

\* C10, amended: when applyConfigFile has returned an error for a missing or
\* unreadable file, the options are as they were; when it has returned one
\* for a value it could not set, the fields declared before the failing one
\* hold the values of their keys (or are as they were, without a key), and
\* the failing field and the fields after it are as they were.
C10_PrefixApplied ==
    (cfgPc = "done" /\ cfgErr # "nil") =>
      IF cfgFile # "ok" THEN OptionsUnchanged
      ELSE \E f \in 1..Len(SnakeKeys) :
             /\ SnakeKeys[f] \in DOMAIN cfgDoc
             /\ cfgDoc[SnakeKeys[f]].kind # DefaultOptions[f].kind
             /\ \A i \in 1..(f - 1) :
                  IF SnakeKeys[i] \in DOMAIN cfgDoc
                  THEN SameValue(options[i], cfgDoc[SnakeKeys[i]])
                  ELSE SameValue(options[i], DefaultOptions[i])
             /\ \A i \in f..Len(SnakeKeys) :
                  SameValue(options[i], DefaultOptions[i])

\* an error for the second key of a document whose first key was applied
C10_Witness ==
    /\ cfgPc = "done"
    /\ cfgErr = "wrong kind"
    /\ ~OptionsUnchanged

====
